---- MODULE Spec2Model ----
(***************************************************************************)
(* Model of the SAS upload-URL demo: the issuance service (index.ts, kept  *)
(* as src/unnamed/part_001), the upload agent (src/client.js) and the      *)
(* storage endpoint they talk to.                                          *)
(*                                                                         *)
(* Text is modelled as a sequence of tokens.  The characters the code      *)
(* splits, scans or concatenates on (";", "=", "?", "&", "/", "-", digits, *)
(* letters of a count parameter) are tokens of their own; a run of other   *)
(* characters that the code never looks into is one opaque token.          *)
(***************************************************************************)
EXTENDS Integers, Sequences, FiniteSets, TLC

VARIABLES
    env,        \* process.env.AZURE_STORAGE_CONNECTION_STRING: [set, text]
    srv,        \* issuance process: "boot", "crashed" or "listening"
    cred,       \* sharedKeyCredential: [accountName, accountKey] (decoded key)
    serviceUrl, \* blobServiceClient.url
    written,    \* everything the issuance process wrote to stdout / stderr
    clock,      \* wall clock, in milliseconds
    container,  \* storage: does the container "images" exist
    blobs,      \* storage: names of the blobs held by the container
    req,        \* the issuance request being handled
    resp,       \* the HTTP response to the last issuance request
    agent,      \* upload agent: its position and the records it received
    wire,       \* every HTTP request sent so far, as [to, method, body]
    lastStore,  \* the last request the storage endpoint answered
    sweep,      \* the cleanup process (cleanup.ts): its position and counters
    rival       \* a second cleanup process started beside the first

vars == <<env, srv, cred, serviceUrl, written, clock, container, blobs,
          req, resp, agent, wire, lastStore, sweep, rival>>

(***************************************************************************)
(* Text helpers                                                            *)
(***************************************************************************)
Undefined == [set |-> FALSE, text |-> <<>>]

Str(t) == [set |-> TRUE, text |-> t]

\* String.prototype.includes on token sequences
Contains(s, sub) ==
    \E i \in 0..(Len(s) - Len(sub)) :
        \A j \in 1..Len(sub) : s[i + j] = sub[j]

\* String.prototype.split(sep) for a one-token separator: the pieces between
\* the separators, empty pieces included
RECURSIVE SplitFrom(_, _, _, _)
SplitFrom(s, sep, start, i) ==
    IF i > Len(s) THEN <<SubSeq(s, start, Len(s))>>
    ELSE IF s[i] = sep
         THEN <<SubSeq(s, start, i - 1)>> \o SplitFrom(s, sep, i + 1, i + 1)
         ELSE SplitFrom(s, sep, start, i + 1)

Split(s, sep) == SplitFrom(s, sep, 1, 1)

\* String.prototype.substring(from, to) with 0-based, clamped indices
Substring(s, from, to) ==
    LET a == IF from > Len(s) THEN Len(s) ELSE from
        b == IF to > Len(s) THEN Len(s) ELSE to
    IN  IF a >= b THEN <<>> ELSE SubSeq(s, a + 1, b)

DigitToks == <<"0", "1", "2", "3", "4", "5", "6", "7", "8", "9">>

\* Number.prototype.toString() of a non-negative integer
RECURSIVE ToDecimal(_)
ToDecimal(n) ==
    IF n < 10 THEN <<DigitToks[n + 1]>>
    ELSE ToDecimal(n \div 10) \o <<DigitToks[(n % 10) + 1]>>

\* parseInt's and Date parsing's view of a digit token; -1 when it is none
DigitVal(c) ==
    CASE c = "0" -> 0 [] c = "1" -> 1 [] c = "2" -> 2 [] c = "3" -> 3
      [] c = "4" -> 4 [] c = "5" -> 5 [] c = "6" -> 6 [] c = "7" -> 7
      [] c = "8" -> 8 [] c = "9" -> 9 [] OTHER -> -1

HexVal(c) ==
    CASE c = "a" -> 10 [] c = "b" -> 11 [] c = "c" -> 12 [] c = "d" -> 13
      [] c = "e" -> 14 [] c = "f" -> 15 [] OTHER -> DigitVal(c)

\* template literal rendering of a possibly undefined value
Show(v) == IF v.set THEN v.text ELSE <<"undefined">>

\* JavaScript truthiness of a possibly undefined string
Truthy(v) == v.set /\ v.text # <<>>

(***************************************************************************)
(* Configuration: the connection strings the environment may supply        *)
(***************************************************************************)
\* the key the storage account really has (the emulator's well-known key,
\* base64 text ending in "==")
StorageKeyText == <<"Eby8vdM02xNOcqFlqUwJPLlmEtlCDXJ1OUzFT50uSRZ6IFsuFq2UVErCz4I6tq/K1SZFPTOtr/KBHBeksoGMGw", "=", "=">>

StorageAccount == <<"devstoreaccount1">>

InternalEndpoint == <<"http://", "azurite:10000", "/", "devstoreaccount1">>

LocalEndpoint == <<"http://", "127.0.0.1:10000", "/", "devstoreaccount1">>

ConnString(key, endpoint) ==
    <<"AccountName", "=">> \o StorageAccount \o <<";", "AccountKey", "=">> \o key
      \o <<";", "DefaultEndpointsProtocol", "=", "http", ";", "BlobEndpoint", "=">>
      \o endpoint \o <<";">>

\* values of AZURE_STORAGE_CONNECTION_STRING: unset, empty, the two working
\* strings, one with a key the account does not have, one without AccountKey
Environments ==
    { Undefined,
      Str(<<>>),
      Str(ConnString(StorageKeyText, InternalEndpoint)),
      Str(ConnString(StorageKeyText, LocalEndpoint)),
      Str(ConnString(<<"c3RhbGVrZXk">>, InternalEndpoint)),
      Str(<<"AccountName", "=">> \o StorageAccount \o <<";", "BlobEndpoint", "=">>
            \o InternalEndpoint) }

(***************************************************************************)
(* parseConnectionString                                                   *)
(***************************************************************************)
\* const [key, value] = p.split("="): the first two pieces, the rest dropped
KeyValue(p) ==
    LET pieces == Split(p, "=")
    IN  [key |-> Str(pieces[1]),
         value |-> IF Len(pieces) >= 2 THEN Str(pieces[2]) ELSE Undefined]

\* the pairs stored into out, in the order of the for loop
ParsedPairs(connectionString) ==
    LET parts == Split(connectionString, ";")
        kvs == [i \in DOMAIN parts |-> KeyValue(parts[i])]
    IN  SelectSeq(kvs, LAMBDA kv : Truthy(kv.key) /\ Truthy(kv.value))

\* out[name] after the loop: the last assignment wins
parseConnectionString(connectionString, name) ==
    LET pairs == ParsedPairs(connectionString)
        hits == { i \in DOMAIN pairs : pairs[i].key.text = name }
    IN  IF hits = {} THEN Undefined
        ELSE pairs[CHOOSE i \in hits : \A j \in hits : j <= i].value

\* Buffer.from(text, "base64"): the padding carries no data
Base64Decode(text) == SelectSeq(text, LAMBDA t : t # "=")

\* the SDK's own reading of a connection string: the whole text after
\* "name=" up to the next ";"
RECURSIVE JoinWith(_, _)
JoinWith(pieces, sep) ==
    IF Len(pieces) = 0 THEN <<>>
    ELSE IF Len(pieces) = 1 THEN pieces[1]
    ELSE pieces[1] \o <<sep>> \o JoinWith(Tail(pieces), sep)

SdkValue(connectionString, name) ==
    LET parts == Split(connectionString, ";")
        hits == { i \in DOMAIN parts :
                    Len(parts[i]) >= 2 /\ <<parts[i][1]>> = name /\ parts[i][2] = "=" }
    IN  IF hits = {} THEN <<>>
        ELSE LET p == parts[CHOOSE i \in hits : \A j \in hits : i <= j]
             IN  SubSeq(p, 3, Len(p))

(***************************************************************************)
(* Start of the issuance process: the module body of index.ts              *)
(***************************************************************************)
IssuanceHost == "localhost:3000"

Line(stream, text) == [stream |-> stream, text |-> text]

NoCredential == [accountName |-> Undefined, accountKey |-> <<>>]

\* console.log of the raw connection string
LogConnectionString(connectionString) ==
    Line("stdout", <<"Using Azure Storage Connection String: ">> \o Show(connectionString))

\* the missing-configuration check: !connectionString
ConfigMissing(connectionString) == ~Truthy(connectionString)

\* console.log of the account name and of the endpoint
LogParsed(connectionString) ==
    { Line("stdout", <<"Using Account Name: ">>
            \o Show(parseConnectionString(connectionString, <<"AccountName">>))),
      Line("stdout", <<"Using Blob Endpoint: ">>
            \o Show(parseConnectionString(connectionString, <<"BlobEndpoint">>))) }

\* new StorageSharedKeyCredential(accountName, accountKey) throws when the
\* key is undefined (Buffer.from(undefined, "base64"))
CredentialThrows(connectionString) ==
    ~parseConnectionString(connectionString, <<"AccountKey">>).set

\* BlobServiceClient.fromConnectionString rejects a string in which it finds
\* no account name, key or endpoint
ClientThrows(connectionString) ==
    \/ SdkValue(connectionString, <<"AccountName">>) = <<>>
    \/ Base64Decode(SdkValue(connectionString, <<"AccountKey">>)) = <<>>
    \/ SdkValue(connectionString, <<"BlobEndpoint">>) = <<>>

\* the endpoint with a trailing "/" sliced off
SdkEndpoint(connectionString) ==
    LET e == SdkValue(connectionString, <<"BlobEndpoint">>)
    IN  IF e # <<>> /\ e[Len(e)] = "/" THEN SubSeq(e, 1, Len(e) - 1) ELSE e

\* a variant that falls back to the emulator's connection string
connectionStringOrDefault ==
    IF Truthy(env) THEN env ELSE Str(ConnString(StorageKeyText, LocalEndpoint))

\* const connectionString = process.env.AZURE_STORAGE_CONNECTION_STRING
connectionString == env

\* does evaluating the module throw before app.listen is reached
StartupThrows(cs) ==
    \/ ConfigMissing(cs)
    \/ CredentialThrows(cs.text)
    \/ ClientThrows(cs.text)

\* what the module body writes, up to the throw or to the listen callback
StartupOutput(cs) ==
    {LogConnectionString(cs)} \cup
    IF ConfigMissing(cs)
    THEN { Line("stderr", <<"Error: ", "Azure Storage Connection String not found.">>) }
    ELSE LogParsed(cs.text) \cup
         IF CredentialThrows(cs.text)
         THEN { Line("stderr", <<"TypeError: ", "The first argument must be of type string">>) }
         ELSE IF ClientThrows(cs.text)
         THEN { Line("stderr", <<"Error: ", "Invalid connection string">>) }
         ELSE { Line("stdout", <<"Node app (TypeScript) listening at http://", IssuanceHost>>) }

\* sharedKeyCredential: the account name and the decoded key
SharedKeyCredential(cs) ==
    IF ConfigMissing(cs) \/ CredentialThrows(cs.text) THEN NoCredential
    ELSE [accountName |-> parseConnectionString(cs.text, <<"AccountName">>),
          accountKey |-> Base64Decode(parseConnectionString(cs.text, <<"AccountKey">>).text)]

Startup ==
    /\ srv = "boot"
    /\ srv' = IF StartupThrows(connectionString) THEN "crashed" ELSE "listening"
    /\ written' = written \cup StartupOutput(connectionString)
    /\ cred' = SharedKeyCredential(connectionString)
    /\ serviceUrl' = IF StartupThrows(connectionString) THEN <<>>
                     ELSE SdkEndpoint(connectionString.text)
    /\ UNCHANGED <<sweep, rival, env, clock, container, blobs, req, resp, agent, wire, lastStore>>

(***************************************************************************)
(* parseInt and the number of records                                      *)
(***************************************************************************)
NaN == [nan |-> TRUE, val |-> 0]

Num(n) == [nan |-> FALSE, val |-> n]

RECURSIVE SkipSpaces(_)
SkipSpaces(s) ==
    IF s # <<>> /\ Head(s) = " " THEN SkipSpaces(Tail(s)) ELSE s

\* the value of the longest prefix of s made of digits of the radix, with
\* acc the value of the digits read so far and any telling whether one was
RECURSIVE Digits(_, _, _, _)
Digits(s, radix, acc, any) ==
    LET d == IF s = <<>> THEN -1
             ELSE IF radix = 16 THEN HexVal(Head(s)) ELSE DigitVal(Head(s))
    IN  IF d < 0 THEN (IF any THEN Num(acc) ELSE NaN)
        ELSE Digits(Tail(s), radix, acc * radix + d, TRUE)

\* parseInt(x) without a radix: x is turned into a string, leading blanks
\* are skipped, a sign and a 0x prefix are honoured, trailing text is ignored
parseInt(x) ==
    LET s0 == SkipSpaces(Show(x))
        neg == s0 # <<>> /\ Head(s0) = "-"
        s1 == IF s0 # <<>> /\ Head(s0) \in {"-", "+"} THEN Tail(s0) ELSE s0
        hex == Len(s1) >= 2 /\ s1[1] = "0" /\ s1[2] \in {"x", "X"}
        mag == IF hex THEN Digits(SubSeq(s1, 3, Len(s1)), 16, 0, FALSE)
               ELSE Digits(s1, 10, 0, FALSE)
    IN  IF mag.nan THEN NaN ELSE Num(IF neg THEN 0 - mag.val ELSE mag.val)

\* a variant with ?? in place of ||: NaN is kept and counts as length 0
numUrlsNullish(count) ==
    LET n == parseInt(count)
    IN  IF n.nan THEN 0 ELSE n.val

\* const numUrls = parseInt(count as string) || 1
numUrls(count) ==
    LET n == parseInt(count)
    IN  IF n.nan \/ n.val = 0 THEN 1 ELSE n.val

\* a variant that makes one element too few
ArrayLengthShort(n) == IF n < 1 THEN 0 ELSE n - 1

\* Array.from({ length: numUrls }): a negative length counts as 0
ArrayLength(n) == IF n < 0 THEN 0 ELSE n

(***************************************************************************)
(* Building one record: name, SAS token, URLs                              *)
(***************************************************************************)
containerName == <<"images">>

FiveMinutes == 5 * 60 * 1000

SasVersion == <<"2025-11-05">>

\* Math.random().toString(36) for a value whose base-36 fraction digits are
\* frac (none when the value is 0)
RandomString(frac) == IF frac = <<>> THEN <<"0">> ELSE <<"0", ".">> \o frac

\* Math.random().toString(36).substring(2, 15)
RandomSuffix(frac) == Substring(RandomString(frac), 2, 15)

\* a variant of the name without the random suffix
BlobNameNoSuffix(now, frac) == <<"image", "-">> \o ToDecimal(now) \o <<".jpg">>

\* `image-${Date.now()}-${Math.random().toString(36).substring(2, 15)}.jpg`
BlobName(now, frac) ==
    <<"image", "-">> \o ToDecimal(now) \o <<"-">> \o RandomSuffix(frac) \o <<".jpg">>

\* containerClient.getBlockBlobClient(blobName).url
BlobUrl(endpoint, blobName) ==
    endpoint \o <<"/">> \o containerName \o <<"/">> \o blobName

\* a Date as the SDK writes it into a token: whole seconds, milliseconds
\* cut off (the calendar rendering is written here as the count of seconds)
TruncatedISO(ms) == ToDecimal(ms \div 1000) \o <<"Z">>

CanonicalName(account, cont, blobName) ==
    <<"/", "blob", "/">> \o account \o <<"/">> \o cont \o <<"/">> \o blobName

StringToSign(sp, st, se, canonical, spr, sv, sr) ==
    JoinWith(<<sp, st, se, canonical, spr, sv, sr>>, "\n")

\* HMAC-SHA256 under the account key: one opaque token, different for
\* different keys or messages, from which the key cannot be read back
HmacSha256(key, message) == <<ToString(<<"hmac-sha256", key, message>>)>>

\* a variant granting every permission
SasValuesAllPermissions(blobName, startsOn, expiresOn) ==
    [containerName |-> containerName,
     blobName |-> blobName,
     permissions |-> <<"r", "a", "c", "w", "d">>,
     protocol |-> <<"https,http">>,
     startsOn |-> startsOn,
     expiresOn |-> expiresOn]

\* a variant granting read in place of write
SasValuesReadOnly(blobName, startsOn, expiresOn) ==
    [containerName |-> containerName,
     blobName |-> blobName,
     permissions |-> <<"r">>,
     protocol |-> <<"https,http">>,
     startsOn |-> startsOn,
     expiresOn |-> expiresOn]

\* the token's fields as generateBlobSASQueryParameters is called
SasValues(blobName, startsOn, expiresOn) ==
    [containerName |-> containerName,
     blobName |-> blobName,
     permissions |-> <<"w">>,
     protocol |-> <<"https,http">>,
     startsOn |-> startsOn,
     expiresOn |-> expiresOn]

\* generateBlobSASQueryParameters(values, sharedKeyCredential).toString()
SasToken(values, credential) ==
    LET st == TruncatedISO(values.startsOn)
        se == TruncatedISO(values.expiresOn)
        sig == HmacSha256(credential.accountKey,
                 StringToSign(values.permissions, st, se,
                   CanonicalName(Show(credential.accountName), values.containerName,
                                 values.blobName),
                   values.protocol, SasVersion, <<"b">>))
    IN  <<"sv", "=">> \o SasVersion \o <<"&", "spr", "=">> \o values.protocol
          \o <<"&", "st", "=">> \o st \o <<"&", "se", "=">> \o se
          \o <<"&", "sr", "=", "b", "&", "sp", "=">> \o values.permissions
          \o <<"&", "sig", "=">> \o sig

\* a variant that hands out the signed URL as the file URL too
MakeRecordSignedFileUrl(endpoint, credential, tName, tStart, tExpiry, frac) ==
    LET blobName == BlobName(tName, frac)
        values == SasValues(blobName, tStart, tExpiry + FiveMinutes)
        uploadUrl == BlobUrl(endpoint, blobName) \o <<"?">> \o SasToken(values, credential)
    IN  [record |-> [blobName |-> blobName, uploadUrl |-> uploadUrl, fileUrl |-> uploadUrl],
         values |-> values, now |-> tName, suffix |-> RandomSuffix(frac)]

\* one pass of the map callback, with the three clock readings it makes
\* (Date.now() for the name, new Date() for startsOn, new Date() for expiresOn):
\* the record returned, and what it was made from: the values handed to
\* generateBlobSASQueryParameters, the reading and the suffix in the name
MakeRecord(endpoint, credential, tName, tStart, tExpiry, frac) ==
    LET blobName == BlobName(tName, frac)
        values == SasValues(blobName, tStart, tExpiry + FiveMinutes)
        fileUrl == BlobUrl(endpoint, blobName)
    IN  [record |-> [blobName |-> blobName,
                     uploadUrl |-> fileUrl \o <<"?">> \o SasToken(values, credential),
                     fileUrl |-> fileUrl],
         values |-> values, now |-> tName, suffix |-> RandomSuffix(frac)]

(***************************************************************************)
(* POST /upload-urls                                                       *)
(***************************************************************************)
MaxCount == 3

MaxDrift == 1

MaxFracLen == 1

MaxClock == 2000

\* readings of the clock when the model starts: just before a full second
StartClocks == {1999}

\* outcomes of Math.random(): 0, or a value with up to MaxFracLen digits
Fracs == { [i \in 1..k |-> "7"] : k \in 0..MaxFracLen }

\* values of the count query parameter: the integers 1..MaxCount, no
\* parameter at all, and texts that are not a plain positive integer
Counts ==
    { Str(ToDecimal(n)) : n \in 1..MaxCount } \cup
    { Undefined, Str(<<>>), Str(<<"a", "b", "c">>), Str(<<"0">>),
      Str(<<"-", "2">>), Str(<<"2", "x">>), Str(<<" ", "2">>),
      Str(<<"0", "x", "2">>), Str(<<"x", "2">>) }

CreateErrors == { <<"connect ECONNREFUSED">>, <<"The specified container is being deleted.">> }

AuthError == <<"Server failed to authenticate the request.">>

TokenErrors == { <<"Invalid time value">> }

NoReq == [phase |-> "idle", count |-> Undefined, error |-> <<>>]

\* a response: status, body text and (for JSON) the urls; with it, for the
\* properties below, the count it answers, what each record was made from,
\* and the error thrown while handling, if one was
NoResp == [status |-> 0, body |-> <<>>, urls |-> <<>>,
           count |-> Undefined, made |-> <<>>, thrown |-> Undefined]

\* res.json({ urls })
JsonResponse(count, made) ==
    [status |-> 200, body |-> <<>>,
     urls |-> [i \in DOMAIN made |-> made[i].record],
     count |-> count,
     made |-> [i \in DOMAIN made |-> [values |-> made[i].values, now |-> made[i].now,
                                      suffix |-> made[i].suffix]],
     thrown |-> Undefined]

\* a variant that answers without the error's message
ErrorResponseGeneric(count, message) ==
    [status |-> 500, body |-> <<"<h1>Error</h1>">>,
     urls |-> <<>>, count |-> count, made |-> <<>>, thrown |-> Str(message)]

\* res.status(500).send(`<h1>Error</h1><p>${error.message}</p>`)
ErrorResponse(count, message) ==
    [status |-> 500, body |-> <<"<h1>Error</h1><p>">> \o message \o <<"</p>">>,
     urls |-> <<>>, count |-> count, made |-> <<>>, thrown |-> Str(message)]

\* the handler starts and awaits containerClient.createIfNotExists()
HandlerBegin(count) ==
    /\ srv = "listening"
    /\ req.phase = "idle"
    /\ req' = [phase |-> "creating", count |-> count, error |-> <<>>]
    /\ resp' = NoResp

\* any HTTP caller posts to /upload-urls, without a body
ClientPost(counts) ==
    /\ agent.pc = "off"
    /\ clock <= MaxClock
    /\ \E count \in counts : HandlerBegin(count)
    /\ wire' = wire \cup {[to |-> <<IssuanceHost>>, method |-> "POST", body |-> <<>>]}
    /\ UNCHANGED <<sweep, rival, env, srv, cred, serviceUrl, written, clock, container, blobs,
                   agent, lastStore>>

\* the key blobServiceClient signs its own requests with
ServiceKey == Base64Decode(SdkValue(connectionString.text, <<"AccountKey">>))

\* createIfNotExists as the storage endpoint answers it: the container is
\* there afterwards, or the call throws (whether or not it was created)
CreateIfNotExists ==
    /\ req.phase = "creating"
    /\ \/ /\ ServiceKey = Base64Decode(StorageKeyText)
          /\ container' = TRUE
          /\ req' = [req EXCEPT !.phase = "created"]
       \/ /\ ServiceKey # Base64Decode(StorageKeyText)
          /\ container' = container
          /\ req' = [req EXCEPT !.phase = "createFailed", !.error = AuthError]
       \/ \E e \in CreateErrors, made \in {container, TRUE} :
            /\ made = TRUE => ServiceKey = Base64Decode(StorageKeyText)
            /\ container' = made
            /\ req' = [req EXCEPT !.phase = "createFailed", !.error = e]
    /\ UNCHANGED <<sweep, rival, env, srv, cred, serviceUrl, written, clock, blobs, resp,
                   agent, wire, lastStore>>

\* the clock reading at the k-th read of a run in which the clock moved on
\* by one millisecond just before each of the reads listed in ps
ReadingAt(ps, k) == clock + Cardinality({ j \in DOMAIN ps : ps[j] <= k })

\* the records of Array.from({ length: n }).map(...)
MadeRecords(n, ps, fr) ==
    [i \in 1..n |->
        MakeRecord(serviceUrl, cred, ReadingAt(ps, 3 * i - 2), ReadingAt(ps, 3 * i - 1),
                   ReadingAt(ps, 3 * i), fr[i])]

\* the catch block: console.error(error), then the 500 response
HandlerCatch(message) ==
    /\ resp' = ErrorResponse(req.count, message)
    /\ written' = written \cup {Line("stderr", message)}

\* the rest of the handler after the await: it runs to its response without
\* suspension, while the clock moves on by at most `drift` milliseconds
UploadUrlsRespond(drift, fracs) ==
    /\ req.phase \in {"created", "createFailed"}
    /\ req' = NoReq
    /\ \/ /\ req.phase = "createFailed"
          /\ HandlerCatch(req.error)
          /\ clock' = clock
       \/ /\ req.phase = "created"
          /\ \E m \in 0..drift :
                /\ clock + m <= MaxClock
                /\ clock' = clock + m
                /\ LET n == ArrayLength(numUrls(req.count))
                   IN  \/ \E ps \in [1..m -> 1..(3 * n)], fr \in [1..n -> fracs] :
                            /\ \A j \in 1..(m - 1) : ps[j] <= ps[j + 1]
                            /\ resp' = JsonResponse(req.count, MadeRecords(n, ps, fr))
                            /\ written' = written
                       \/ /\ n > 0
                          /\ \E e \in TokenErrors : HandlerCatch(e)
    /\ UNCHANGED <<sweep, rival, env, srv, cred, serviceUrl, container, blobs, agent, wire, lastStore>>

(***************************************************************************)
(* The storage endpoint, as it answers a request that carries a SAS token  *)
(***************************************************************************)
\* the value of a query parameter, empty when it is not given
QueryParam(params, name) ==
    LET hits == { k \in DOMAIN params :
                    Len(params[k]) >= 2 /\ params[k][1] = name /\ params[k][2] = "=" }
    IN  IF hits = {} THEN <<>>
        ELSE LET q == params[CHOOSE k \in hits : \A j \in hits : k <= j]
             IN  SubSeq(q, 3, Len(q))

\* the part of a URL after its first "?"
UrlQuery(url) ==
    LET pieces == Split(url, "?")
    IN  IF Len(pieces) >= 2 THEN JoinWith(Tail(pieces), "?") ELSE <<>>

\* the host of a URL: what stands between the scheme and the first "/"
UrlHost(url) ==
    LET authority == Split(url, "/")[1]
    IN  IF Len(authority) >= 2 THEN Tail(authority) ELSE <<>>

\* a request URL as the endpoint reads it: host, account, container and blob
\* name from the path, the token's fields from the query
ParseUrl(url) ==
    LET segments == Split(Split(url, "?")[1], "/")
        params == Split(UrlQuery(url), "&")
    IN  [host |-> UrlHost(url),
         account |-> IF Len(segments) >= 2 THEN segments[2] ELSE <<>>,
         container |-> IF Len(segments) >= 3 THEN segments[3] ELSE <<>>,
         blob |-> IF Len(segments) >= 4
                  THEN JoinWith(SubSeq(segments, 4, Len(segments)), "/") ELSE <<>>,
         sv |-> QueryParam(params, "sv"),
         spr |-> QueryParam(params, "spr"),
         st |-> QueryParam(params, "st"),
         se |-> QueryParam(params, "se"),
         sr |-> QueryParam(params, "sr"),
         sp |-> QueryParam(params, "sp"),
         sig |-> QueryParam(params, "sig")]

\* the instant, in milliseconds, a time written by TruncatedISO denotes
RECURSIVE ParseSeconds(_, _)
ParseSeconds(s, acc) ==
    IF s = <<>> \/ DigitVal(Head(s)) < 0 THEN acc
    ELSE ParseSeconds(Tail(s), acc * 10 + DigitVal(Head(s)))

ParseISO(s) == ParseSeconds(s, 0) * 1000

\* the permission letter an operation needs
RequiredPermission(method) ==
    CASE method = "PUT" -> "w" [] method = "GET" -> "r" [] method = "DELETE" -> "d"
      [] OTHER -> "?"

\* the signature the endpoint computes for the request from the account's key
ExpectedSignature(u) ==
    HmacSha256(Base64Decode(StorageKeyText),
      StringToSign(u.sp, u.st, u.se, CanonicalName(u.account, u.container, u.blob),
                   u.spr, u.sv, u.sr))

\* the token's validity window: from st up to, not including, se
InWindow(u, now) == ParseISO(u.st) <= now /\ now < ParseISO(u.se)

SasAuthorizes(method, u, now) ==
    /\ u.sig # <<>>
    /\ u.sig = ExpectedSignature(u)
    /\ InWindow(u, now)
    /\ \E k \in DOMAIN u.sp : u.sp[k] = RequiredPermission(method)

\* the status the endpoint answers with; typed says whether the request
\* carries the x-ms-blob-type header
StorageStatus(method, u, typed, now) ==
    IF ~SasAuthorizes(method, u, now) THEN 403
    ELSE IF ~container \/ u.container # containerName THEN 404
    ELSE IF method = "PUT" THEN (IF typed THEN 201 ELSE 400)
    ELSE IF u.blob \notin blobs THEN 404
    ELSE IF method = "GET" THEN 200
    ELSE 202

\* the blobs held after the request was answered
StorageEffect(method, u, status) ==
    IF method = "PUT" /\ status = 201 THEN blobs \cup {u.blob}
    ELSE IF method = "DELETE" /\ status = 202 THEN blobs \ {u.blob}
    ELSE blobs

(***************************************************************************)
(* A holder of a returned uploadUrl using it against the storage endpoint  *)
(***************************************************************************)
NoStore == [method |-> "", url |-> <<>>, issued |-> <<>>, typed |-> FALSE,
            status |-> 0, at |-> 0]

Methods == {"PUT", "GET", "DELETE"}

OtherBlob == <<"report.pdf">>

\* the URLs a holder of the records can aim a token at: the objects named in
\* the response and one object that is none of them
TargetUrls == { resp.urls[k].fileUrl : k \in DOMAIN resp.urls }
                \cup { BlobUrl(serviceUrl, OtherBlob) }

\* a request made with the token of a returned uploadUrl, against the object
\* it names or against another one
UseUrl ==
    /\ resp.status = 200
    /\ \E k \in DOMAIN resp.urls, base \in TargetUrls :
          LET issued == resp.urls[k].uploadUrl
              url == base \o <<"?">> \o UrlQuery(issued)
              u == ParseUrl(url)
          IN  \E method \in Methods, typed \in BOOLEAN :
                LET status == StorageStatus(method, u, typed, clock)
                IN  /\ typed => method = "PUT"
                    /\ lastStore' = [method |-> method, url |-> url, issued |-> issued,
                                     typed |-> typed, status |-> status, at |-> clock]
                    /\ blobs' = StorageEffect(method, u, status)
    /\ UNCHANGED <<sweep, rival, env, srv, cred, serviceUrl, written, clock, container, req, resp,
                   agent, wire>>

\* time passes: by a millisecond around the start, then by just under five
\* minutes, then by whole seconds until the windows are over
Tick(steps) ==
    /\ \E d \in steps :
          /\ d = 1 => clock < MaxClock
          /\ d = FiveMinutes - 1000 => clock <= MaxClock
          /\ d = 1000 => clock > MaxClock /\ clock < MaxClock + FiveMinutes
          /\ clock' = clock + d
    /\ UNCHANGED <<sweep, rival, env, srv, cred, serviceUrl, written, container, blobs, req, resp,
                   agent, wire, lastStore>>

NoAgent == [pc |-> "off", urls |-> <<>>, next |-> 0, puts |-> <<>>, flight |-> <<>>,
            results |-> <<>>]

\* the cleanup process before it is started
NoSweep == [pc |-> "off", run |-> 0, marker |-> 0, blobsToDelete |-> <<>>, next |-> 0,
            successCount |-> 0, failCount |-> 0, attempted |-> <<>>, exit |-> -1,
            thrown |-> "", summary |-> <<>>, atStart |-> {}, founds |-> <<>>,
            late |-> {}]

InitWith(environments, agentStart) ==
    /\ env \in environments
    /\ srv = "boot"
    /\ cred = NoCredential
    /\ serviceUrl = <<>>
    /\ written = {}
    /\ clock \in StartClocks
    /\ container \in BOOLEAN
    /\ blobs = {}
    /\ req = NoReq
    /\ resp = NoResp
    /\ agent = agentStart
    /\ wire = {}
    /\ lastStore = NoStore
    /\ sweep = NoSweep
    /\ rival = NoSweep

Init == InitWith(Environments, NoAgent)

\* the issuance service under arbitrary callers
Next ==
    \/ Startup
    \/ ClientPost(Counts)
    \/ CreateIfNotExists
    \/ UploadUrlsRespond(MaxDrift, Fracs)

Spec == Init /\ [][Next]_vars

\* values of the count query parameter that are zero or a negative integer,
\* and the absent one they are compared with
PathologicalCounts ==
    { Str(<<"-">> \o ToDecimal(n)) : n \in 1..MaxCount } \cup
    { Undefined, Str(<<"0">>), Str(<<"-", "0">>), Str(<<"0", "0">>) }

\* the issuance service under callers that send such counts
NextCounts ==
    \/ Startup
    \/ ClientPost(PathologicalCounts)
    \/ CreateIfNotExists
    \/ UploadUrlsRespond(MaxDrift, Fracs)

SpecCounts == Init /\ [][NextCounts]_vars

(***************************************************************************)
(* The upload agent: client.js                                             *)
(***************************************************************************)
\* String.prototype.replace(pattern, replacement) with a string pattern: the
\* first occurrence only
Replace(s, pattern, replacement) ==
    LET hits == { k \in 0..(Len(s) - Len(pattern)) :
                    \A j \in 1..Len(pattern) : s[k + j] = pattern[j] }
    IN  IF hits = {} THEN s
        ELSE LET k == CHOOSE h \in hits : \A g \in hits : h <= g
             IN  SubSeq(s, 1, k) \o replacement \o SubSeq(s, k + Len(pattern) + 1, Len(s))

\* fakeImageBuffer: the 67 bytes of a 1x1 PNG
fakeImageBuffer == <<"PNG-1x1">>

\* the count the agent asks for
AgentCount == Str(<<"5">>)

\* hosts the agent can connect to from outside the private network
AgentReachable == {<<"localhost:10000">>, <<"127.0.0.1:10000">>}

\* a variant that posts the image to the issuance service
FetchRequestWithBody == [to |-> <<IssuanceHost>>, method |-> "POST", body |-> fakeImageBuffer]

\* the request fetch sends: a POST without a body
FetchRequest == [to |-> <<IssuanceHost>>, method |-> "POST", body |-> <<>>]

AgentStart == [NoAgent EXCEPT !.pc = "start"]

\* fetch('http://localhost:3000/upload-urls?count=5', { method: 'POST' })
AgentFetch ==
    /\ agent.pc = "start"
    /\ srv # "boot"
    /\ wire' = wire \cup {FetchRequest}
    /\ IF srv = "listening"
       THEN /\ HandlerBegin(AgentCount)
            /\ agent' = [agent EXCEPT !.pc = "waiting"]
       ELSE /\ agent' = [agent EXCEPT !.pc = "fetchFailed"]
            /\ UNCHANGED <<req, resp>>
    /\ UNCHANGED <<sweep, rival, env, srv, cred, serviceUrl, written, clock, container, blobs, lastStore>>

\* response.json(): the records of a 200 response; the body of a 500
\* response is no JSON and the outer catch reports it
AgentReceive ==
    /\ agent.pc = "waiting"
    /\ resp.status # 0
    /\ agent' = IF resp.status = 200
                THEN [agent EXCEPT !.pc = "uploading", !.urls = resp.urls, !.next = 1]
                ELSE [agent EXCEPT !.pc = "fetchFailed"]
    /\ UNCHANGED <<sweep, rival, env, srv, cred, serviceUrl, written, clock, container, blobs, req,
                   resp, wire, lastStore>>

\* urlData.uploadUrl.replace('azurite:10000', 'localhost:10000')
clientUploadUrl(urlData) ==
    Replace(urlData.uploadUrl, <<"azurite:10000">>, <<"localhost:10000">>)

\* uploadResponse.ok: a status from 200 to 299; 0 stands for a fetch that
\* threw instead of answering
ResponseOk(status) == status >= 200 /\ status <= 299

\* a variant in which a failed transfer leaves the loop for the outer catch
AfterUploadStopOnError(a, status) ==
    IF ResponseOk(status)
    THEN [a EXCEPT !.pc = "uploading", !.next = @ + 1, !.flight = <<>>,
                   !.results = Append(@, status)]
    ELSE [a EXCEPT !.pc = "fetchFailed", !.flight = <<>>, !.results = Append(@, status)]

\* the end of one pass of the for loop: the outcome is logged, by the if, the
\* else or the catch, and the loop goes on to the next record
AfterUpload(a, status) ==
    [a EXCEPT !.pc = "uploading", !.next = @ + 1, !.flight = <<>>,
              !.results = Append(@, status)]

\* one pass of the for loop, up to the await: the PUT of the next record's
\* rewritten uploadUrl is sent; agent.flight is the request on its way, with
\* the endpoint's answer once there is one
AgentUpload ==
    /\ agent.pc = "uploading"
    /\ agent.next <= Len(agent.urls)
    /\ LET url == clientUploadUrl(agent.urls[agent.next])
       IN  /\ wire' = wire \cup {[to |-> UrlHost(url), method |-> "PUT",
                                  body |-> fakeImageBuffer]}
           /\ agent' = [agent EXCEPT !.pc = "awaiting", !.puts = Append(@, url),
                                     !.flight = <<[url |-> url, status |-> 0]>>]
    /\ UNCHANGED <<sweep, rival, env, srv, cred, serviceUrl, written, clock, container, blobs,
                   req, resp, lastStore>>

\* the storage endpoint answers the PUT, if the agent reaches its host
StorageAnswersPut ==
    /\ agent.pc = "awaiting"
    /\ agent.flight[1].status = 0
    /\ LET u == ParseUrl(agent.flight[1].url)
           status == StorageStatus("PUT", u, TRUE, clock)
       IN  /\ u.host \in AgentReachable
           /\ blobs' = StorageEffect("PUT", u, status)
           /\ agent' = [agent EXCEPT !.flight[1].status = status]
    /\ UNCHANGED <<sweep, rival, env, srv, cred, serviceUrl, written, clock, container, req,
                   resp, wire, lastStore>>

\* the awaited fetch settles: with the endpoint's answer, or, when none has
\* come, by throwing (host not reachable, connection lost, timeout)
AgentUploaded ==
    /\ agent.pc = "awaiting"
    /\ agent' = AfterUpload(agent, agent.flight[1].status)
    /\ UNCHANGED <<sweep, rival, env, srv, cred, serviceUrl, written, clock, container, blobs,
                   req, resp, wire, lastStore>>

\* console.log('Upload process completed!')
AgentFinish ==
    /\ agent.pc = "uploading"
    /\ agent.next > Len(agent.urls)
    /\ agent' = [agent EXCEPT !.pc = "done"]
    /\ UNCHANGED <<sweep, rival, env, srv, cred, serviceUrl, written, clock, container, blobs, req,
                   resp, wire, lastStore>>

\* the issuance service, the storage endpoint and the upload agent
AgentFracs == { <<>>, <<"7">> }

AgentEnvironments ==
    { Undefined,
      Str(ConnString(StorageKeyText, InternalEndpoint)),
      Str(ConnString(StorageKeyText, LocalEndpoint)) }

InitAgent == InitWith(AgentEnvironments, AgentStart)

NextAgent ==
    \/ Startup
    \/ AgentFetch
    \/ CreateIfNotExists
    \/ UploadUrlsRespond(0, AgentFracs)
    \/ AgentReceive
    \/ AgentUpload
    \/ StorageAnswersPut
    \/ AgentUploaded
    \/ AgentFinish
    \/ Tick({FiveMinutes - 1000, 1000})

SpecAgent == InitAgent /\ [][NextAgent]_vars

\* one run of the agent, during which the tokens may run out
UploadEnvironments ==
    { Undefined, Str(ConnString(StorageKeyText, LocalEndpoint)) }

InitUpload == InitWith(UploadEnvironments, AgentStart)

\* the validity window passes while the agent is between two transfers
Expire ==
    /\ agent.pc = "uploading"
    /\ clock <= MaxClock
    /\ Tick({FiveMinutes + 1000})

NextUpload ==
    \/ Startup
    \/ AgentFetch
    \/ CreateIfNotExists
    \/ UploadUrlsRespond(0, AgentFracs)
    \/ AgentReceive
    \/ AgentUpload
    \/ StorageAnswersPut
    \/ AgentUploaded
    \/ AgentFinish
    \/ Expire

SpecUpload == InitUpload /\ [][NextUpload]_vars

\* the agent's own steps are not postponed for ever: the event loop runs a
\* continuation once its promise has settled, and every fetch settles
SpecUploadLive ==
    SpecUpload /\ WF_vars(AgentUpload) /\ WF_vars(AgentUploaded) /\ WF_vars(AgentFinish)

\* the agent against services whose storage endpoint is the internal host, a
\* host the agent reaches as it is, or a host whose name only ends like the
\* internal one
PrefixedEndpoint == <<"http://", "dev-", "azurite:10000", "/", "devstoreaccount1">>

RewriteEnvironments ==
    { Str(ConnString(StorageKeyText, InternalEndpoint)),
      Str(ConnString(StorageKeyText, LocalEndpoint)),
      Str(ConnString(StorageKeyText, PrefixedEndpoint)) }

InitRewrite == InitWith(RewriteEnvironments, AgentStart)

SpecRewrite == InitRewrite /\ [][NextUpload]_vars

\* the issuance service, the storage endpoint and holders of the URLs
StoreCounts == { Undefined, Str(<<"2">>) }

StoreEnvironments ==
    { Str(ConnString(StorageKeyText, InternalEndpoint)),
      Str(ConnString(<<"c3RhbGVrZXk">>, InternalEndpoint)) }

InitStore == InitWith(StoreEnvironments, NoAgent)

\* one issuance request, then any use of what it returned
FirstPost == wire = {} /\ ClientPost(StoreCounts)

\* the holder's clock moves on once it has the records
TickAfterIssue == resp.status = 200 /\ Tick({1, FiveMinutes - 1000, 1000})

NextStore ==
    \/ Startup
    \/ FirstPost
    \/ CreateIfNotExists
    \/ UploadUrlsRespond(0, AgentFracs)
    \/ UseUrl
    \/ TickAfterIssue

SpecStore == InitStore /\ [][NextStore]_vars

(***************************************************************************)
(* The cleanup process: cleanup.ts (kept as src/unnamed/part_002)          *)
(***************************************************************************)
MaxObjects == 3

MaxPage == 2

MaxRuns == 2

\* the names the container may hold: names the issuance service gives at
\* the start of the clock, in lexicographic order
ObjectName(k) == BlobName(CHOOSE t \in StartClocks : TRUE, [i \in 1..(k - 1) |-> "7"])

Objects == { ObjectName(k) : k \in 1..MaxObjects }

\* listBlobsFlat returns names in lexicographic order
Rank(name) == CHOOSE k \in 1..MaxObjects : ObjectName(k) = name

\* one page of the listing: the first names after the continuation marker
ListPage(marker) ==
    LET rest == { k \in 1..MaxObjects : k > marker /\ ObjectName(k) \in blobs }
        page == { k \in rest : Cardinality({ j \in rest : j < k }) < MaxPage }
    IN  [names |-> [i \in 1..Cardinality(page) |->
                      ObjectName(CHOOSE k \in page : Cardinality({ j \in page : j < k }) = i - 1)],
         last |-> page = rest]

\* a variant that keeps every name twice
PushNameTwice(list, name) == list \o <<name, name>>

\* blobsToDelete.push(blob.name)
PushName(list, name) == Append(list, name)

RECURSIVE PushAll(_, _)
PushAll(list, names) ==
    IF names = <<>> THEN list ELSE PushAll(PushName(list, Head(names)), Tail(names))

\* the process ends: by process.exit(code), or by running out of work (0);
\* founds keeps, run by run, how many names the run had collected when its
\* enumeration completed (-1 when it did not complete)
SweepExit(sw, code, listed) ==
    [sw EXCEPT !.pc = "exited", !.exit = code,
               !.founds = Append(@, IF listed THEN Len(sw.blobsToDelete) ELSE -1)]

\* a variant that swallows the error
MainCatchSwallowed(sw, step) == SweepExit([sw EXCEPT !.thrown = step], 0, FALSE)

\* main's catch: the error is logged and process.exit(1) is called
MainCatch(sw, step) == SweepExit([sw EXCEPT !.thrown = step], 1, FALSE)

\* a variant that treats a missing container as a failure
ReturnNoContainerFailing(sw) == SweepExit(sw, 1, FALSE)

\* if (!containerExists) { ...; return; } and main runs to its end
ReturnNoContainer(sw) == SweepExit(sw, 0, FALSE)

\* a variant that treats an empty container as a failure
ReturnEmptyFailing(sw) == SweepExit(sw, 1, TRUE)

\* if (blobsToDelete.length === 0) { ...; return; } and main runs to its end
ReturnEmpty(sw) == SweepExit(sw, 0, TRUE)

\* a variant that forgets to count a failed delete
CountFailureDropped(sw) == sw

\* failCount++
CountFailure(sw) == [sw EXCEPT !.failCount = @ + 1]

\* successCount++
CountSuccess(sw) == [sw EXCEPT !.successCount = @ + 1]

\* a variant that counts a delete that threw as a success
DeleteFailedCountsSuccess(sw) == CountSuccess(sw)

\* a variant in which the error of a delete reaches main's catch
DeleteFailedEscapes(sw) == MainCatch(sw, "delete")

\* the catch of the delete loop: the error is logged and counted, and the
\* loop goes on
DeleteFailed(sw) == CountFailure(sw)

\* main() calls cleanupContainer('images'), which runs up to its first await
SweepStart ==
    /\ sweep.pc \in {"ready", "exited"}
    /\ sweep.run < MaxRuns
    /\ sweep' = [sweep EXCEPT !.pc = "exists", !.run = @ + 1, !.marker = 0,
                              !.blobsToDelete = <<>>, !.next = 0, !.successCount = 0,
                              !.failCount = 0, !.attempted = <<>>, !.exit = -1,
                              !.thrown = "", !.summary = <<>>, !.late = {},
                              !.atStart = IF container THEN blobs ELSE {}]
    /\ UNCHANGED <<rival, env, srv, cred, serviceUrl, written, clock, container, blobs, req,
                   resp, agent, wire, lastStore>>

\* await containerClient.exists() settles
SweepExists ==
    /\ sweep.pc = "exists"
    /\ \/ sweep' = MainCatch(sweep, "exists")
       \/ /\ ~container
          /\ sweep' = ReturnNoContainer(sweep)
       \/ /\ container
          /\ sweep' = [sweep EXCEPT !.pc = "listing"]
    /\ UNCHANGED <<rival, env, srv, cred, serviceUrl, written, clock, container, blobs, req,
                   resp, agent, wire, lastStore>>

\* the for await loop takes the next page of listBlobsFlat() and pushes its
\* names; after the last page the loop ends
SweepListPage ==
    /\ sweep.pc = "listing"
    /\ \/ sweep' = MainCatch(sweep, "list")
       \/ LET page == ListPage(sweep.marker)
              listed == [sweep EXCEPT !.blobsToDelete = PushAll(@, page.names)]
          IN  IF ~page.last
              THEN sweep' = [listed EXCEPT !.marker = Rank(page.names[Len(page.names)])]
              ELSE IF Len(listed.blobsToDelete) = 0
              THEN sweep' = ReturnEmpty(listed)
              ELSE sweep' = [listed EXCEPT !.pc = "deleting", !.next = 1]
    /\ UNCHANGED <<rival, env, srv, cred, serviceUrl, written, clock, container, blobs, req,
                   resp, agent, wire, lastStore>>

\* one pass of the delete loop: blobClient.delete() removes the blob, or
\* throws (blob not found, authorization, lease, transport) and the catch
\* counts the failure
SweepDelete ==
    /\ sweep.pc = "deleting"
    /\ sweep.next <= Len(sweep.blobsToDelete)
    /\ LET blobName == sweep.blobsToDelete[sweep.next]
           tried == [sweep EXCEPT !.next = @ + 1, !.attempted = Append(@, blobName)]
       IN  \/ /\ blobName \in blobs
              /\ blobs' = blobs \ {blobName}
              /\ sweep' = CountSuccess(tried)
           \/ /\ blobs' = blobs
              /\ sweep' = DeleteFailed(tried)
    /\ UNCHANGED <<rival, env, srv, cred, serviceUrl, written, clock, container, req, resp,
                   agent, wire, lastStore>>

\* the summary lines, and main runs to its end
SweepSummary ==
    /\ sweep.pc = "deleting"
    /\ sweep.next > Len(sweep.blobsToDelete)
    /\ sweep' = SweepExit([sweep EXCEPT !.summary =
                              <<[found |-> Len(sweep.blobsToDelete),
                                 succeeded |-> sweep.successCount,
                                 failed |-> sweep.failCount]>>], 0, TRUE)
    /\ UNCHANGED <<rival, env, srv, cred, serviceUrl, written, clock, container, blobs, req,
                   resp, agent, wire, lastStore>>

\* an upload by someone else creates an object while the cleanup runs
OtherUpload ==
    /\ container
    /\ sweep.pc \in {"exists", "listing", "deleting"}
    /\ \E name \in Objects \ blobs :
          /\ blobs' = blobs \cup {name}
          /\ sweep' = [sweep EXCEPT !.late = IF sweep.pc = "deleting"
                                             THEN @ \cup {name} ELSE @]
    /\ UNCHANGED <<rival, env, srv, cred, serviceUrl, written, clock, container, req, resp,
                   agent, wire, lastStore>>

\* the container as the uploads left it, and the cleanup about to be run
InitSweep ==
    /\ env = Str(ConnString(StorageKeyText, LocalEndpoint))
    /\ srv = "boot"
    /\ cred = NoCredential
    /\ serviceUrl = <<>>
    /\ written = {}
    /\ clock \in StartClocks
    /\ container \in BOOLEAN
    /\ blobs \in (IF container THEN SUBSET Objects ELSE {{}})
    /\ req = NoReq
    /\ resp = NoResp
    /\ agent = NoAgent
    /\ wire = {}
    /\ lastStore = NoStore
    /\ sweep = [NoSweep EXCEPT !.pc = "ready"]
    /\ rival = NoSweep

\* the cleanup run up to MaxRuns times in a row, nothing else using storage
NextSweep ==
    \/ SweepStart
    \/ SweepExists
    \/ SweepListPage
    \/ SweepDelete
    \/ SweepSummary

SpecSweep == InitSweep /\ [][NextSweep]_vars

\* the cleanup while uploads go on
NextSweepRace ==
    \/ SweepStart
    \/ SweepExists
    \/ SweepListPage
    \/ SweepDelete
    \/ SweepSummary
    \/ OtherUpload

SpecSweepRace == InitSweep /\ [][NextSweepRace]_vars

\* the three batches one after the other: an issuance request, the agent's
\* transfers, then one cleanup of what they left
(***************************************************************************)
(* Two cleanup processes over the same container                           *)
(***************************************************************************)
\* the second process: main() calls cleanupContainer('images')
RivalStart ==
    /\ rival.pc = "ready"
    /\ rival' = [rival EXCEPT !.pc = "exists", !.run = 1,
                              !.atStart = IF container THEN blobs ELSE {}]
    /\ UNCHANGED <<sweep, env, srv, cred, serviceUrl, written, clock, container, blobs,
                   req, resp, agent, wire, lastStore>>

\* its await containerClient.exists() settles
RivalExists ==
    /\ rival.pc = "exists"
    /\ \/ rival' = MainCatch(rival, "exists")
       \/ /\ ~container
          /\ rival' = ReturnNoContainer(rival)
       \/ /\ container
          /\ rival' = [rival EXCEPT !.pc = "listing"]
    /\ UNCHANGED <<sweep, env, srv, cred, serviceUrl, written, clock, container, blobs,
                   req, resp, agent, wire, lastStore>>

\* its for await loop takes the next page of listBlobsFlat()
RivalListPage ==
    /\ rival.pc = "listing"
    /\ \/ rival' = MainCatch(rival, "list")
       \/ LET page == ListPage(rival.marker)
              listed == [rival EXCEPT !.blobsToDelete = PushAll(@, page.names)]
          IN  IF ~page.last
              THEN rival' = [listed EXCEPT !.marker = Rank(page.names[Len(page.names)])]
              ELSE IF Len(listed.blobsToDelete) = 0
              THEN rival' = ReturnEmpty(listed)
              ELSE rival' = [listed EXCEPT !.pc = "deleting", !.next = 1]
    /\ UNCHANGED <<sweep, env, srv, cred, serviceUrl, written, clock, container, blobs,
                   req, resp, agent, wire, lastStore>>

\* one pass of its delete loop: a blob the other process has removed is no
\* longer there, delete() throws and the catch counts the failure
RivalDelete ==
    /\ rival.pc = "deleting"
    /\ rival.next <= Len(rival.blobsToDelete)
    /\ LET blobName == rival.blobsToDelete[rival.next]
           tried == [rival EXCEPT !.next = @ + 1, !.attempted = Append(@, blobName)]
       IN  \/ /\ blobName \in blobs
              /\ blobs' = blobs \ {blobName}
              /\ rival' = CountSuccess(tried)
           \/ /\ blobs' = blobs
              /\ rival' = DeleteFailed(tried)
    /\ UNCHANGED <<sweep, env, srv, cred, serviceUrl, written, clock, container, req,
                   resp, agent, wire, lastStore>>

\* its summary lines, and its main runs to its end
RivalSummary ==
    /\ rival.pc = "deleting"
    /\ rival.next > Len(rival.blobsToDelete)
    /\ rival' = SweepExit([rival EXCEPT !.summary =
                              <<[found |-> Len(rival.blobsToDelete),
                                 succeeded |-> rival.successCount,
                                 failed |-> rival.failCount]>>], 0, TRUE)
    /\ UNCHANGED <<sweep, env, srv, cred, serviceUrl, written, clock, container, blobs,
                   req, resp, agent, wire, lastStore>>

\* the first process is started once
SweepStartOnce ==
    /\ sweep.run = 0
    /\ SweepStart

InitTwoSweeps ==
    /\ env = Str(ConnString(StorageKeyText, LocalEndpoint))
    /\ srv = "boot"
    /\ cred = NoCredential
    /\ serviceUrl = <<>>
    /\ written = {}
    /\ clock \in StartClocks
    /\ container \in BOOLEAN
    /\ blobs \in (IF container THEN SUBSET Objects ELSE {{}})
    /\ req = NoReq
    /\ resp = NoResp
    /\ agent = NoAgent
    /\ wire = {}
    /\ lastStore = NoStore
    /\ sweep = [NoSweep EXCEPT !.pc = "ready"]
    /\ rival = [NoSweep EXCEPT !.pc = "ready"]

\* two cleanup runs, each started once, their steps interleaved in any way
NextTwoSweeps ==
    \/ SweepStartOnce
    \/ SweepExists
    \/ SweepListPage
    \/ SweepDelete
    \/ SweepSummary
    \/ RivalStart
    \/ RivalExists
    \/ RivalListPage
    \/ RivalDelete
    \/ RivalSummary

SpecTwoSweeps == InitTwoSweeps /\ [][NextTwoSweeps]_vars

InitBatch ==
    /\ InitWith({ Str(ConnString(StorageKeyText, LocalEndpoint)) }, AgentStart)

SweepAfterUploads ==
    /\ agent.pc \in {"done", "fetchFailed"}
    /\ sweep.pc = "off"
    /\ sweep' = [NoSweep EXCEPT !.pc = "exists", !.run = 1,
                                !.atStart = IF container THEN blobs ELSE {}]
    /\ UNCHANGED <<rival, env, srv, cred, serviceUrl, written, clock, container, blobs, req,
                   resp, agent, wire, lastStore>>

NextBatch ==
    \/ Startup
    \/ AgentFetch
    \/ CreateIfNotExists
    \/ UploadUrlsRespond(0, AgentFracs)
    \/ AgentReceive
    \/ AgentUpload
    \/ StorageAnswersPut
    \/ AgentUploaded
    \/ AgentFinish
    \/ SweepAfterUploads
    \/ SweepExists
    \/ SweepListPage
    \/ SweepDelete
    \/ SweepSummary

SpecBatch == InitBatch /\ [][NextBatch]_vars

(***************************************************************************)
(* Properties                                                              *)
(***************************************************************************)
\* C1: for every integer N >= 1 given as count, a successful response
\* carries exactly N records
C1_ExactlyNRecords ==
    \A n \in 1..MaxCount :
        resp.status = 200 /\ resp.count = Str(ToDecimal(n)) => Len(resp.urls) = n

C1_Witness ==
    /\ resp.status = 200
    /\ resp.count = Str(ToDecimal(MaxCount))
    /\ Len(resp.urls) = MaxCount

\* C2 as stated: in one response the blobName values are pairwise distinct,
\* whatever the clock readings and the random suffixes were
C2_AlwaysDistinct ==
    resp.status = 200 =>
        \A i, j \in DOMAIN resp.urls :
            i # j => resp.urls[i].blobName # resp.urls[j].blobName

\* C2 amended: in one response two records carry the same blobName exactly
\* when they were built from the same clock reading and the same random
\* suffix; records that differ in either have different names
C2_DistinctUnlessSameDraw ==
    resp.status = 200 =>
        \A i, j \in DOMAIN resp.urls :
            (resp.urls[i].blobName = resp.urls[j].blobName)
                <=> (/\ resp.made[i].now = resp.made[j].now
                     /\ resp.made[i].suffix = resp.made[j].suffix)

C2_Witness ==
    /\ resp.status = 200
    /\ Len(resp.urls) >= 3
    /\ resp.made[1].now = resp.made[2].now
    /\ resp.made[1].suffix # resp.made[2].suffix
    /\ resp.made[3].now # resp.made[2].now
    /\ resp.made[3].suffix = resp.made[2].suffix
    /\ \A i, j \in DOMAIN resp.urls :
          i # j => resp.urls[i].blobName # resp.urls[j].blobName

\* the whole text is a number: blanks, an optional sign, then decimal digits
\* or 0x and hexadecimal digits, and nothing after them
IsNumeric(text) ==
    LET s0 == SkipSpaces(text)
        s1 == IF s0 # <<>> /\ Head(s0) \in {"-", "+"} THEN Tail(s0) ELSE s0
        hex == Len(s1) >= 2 /\ s1[1] = "0" /\ s1[2] \in {"x", "X"}
    IN  IF hex
        THEN Len(s1) >= 3 /\ \A k \in 3..Len(s1) : HexVal(s1[k]) >= 0
        ELSE s1 # <<>> /\ \A k \in DOMAIN s1 : DigitVal(s1[k]) >= 0

\* the text does not start with a number: after blanks and an optional sign
\* there is no digit
NoLeadingDigit(text) ==
    LET s0 == SkipSpaces(text)
        s1 == IF s0 # <<>> /\ Head(s0) \in {"-", "+"} THEN Tail(s0) ELSE s0
    IN  s1 = <<>> \/ DigitVal(Head(s1)) < 0

\* C3 as stated: a count that is absent or not numeric yields exactly 1 record
C3_NonNumericYieldsOne ==
    resp.status = 200 /\ (~resp.count.set \/ ~IsNumeric(resp.count.text))
        => Len(resp.urls) = 1

\* C3, as the code behaves: a count that is absent, or whose text does not begin (after
\* blanks and an optional sign) with a digit, yields exactly 1 record; a text
\* that begins with digits is read as that leading integer
C3_NoLeadingDigitYieldsOne ==
    resp.status = 200 /\ (~resp.count.set \/ NoLeadingDigit(resp.count.text))
        => Len(resp.urls) = 1

C3_Witness ==
    /\ resp.status = 200
    /\ resp.count = Str(<<"a", "b", "c">>)
    /\ Len(resp.urls) = 1
\* C4: a returned uploadUrl authorizes only a write to the object it names:
\* every GET or DELETE made with it, and every request made with its token
\* against another object, is answered 403 by the storage endpoint
C4_WriteOnlyOneObject ==
    lastStore.method # "" =>
        LET target == ParseUrl(lastStore.url).blob
            own == ParseUrl(lastStore.issued).blob
        IN  (lastStore.method \in {"GET", "DELETE"} \/ target # own)
                => lastStore.status = 403

C4_Witness ==
    /\ lastStore.method = "GET"
    /\ lastStore.url = lastStore.issued
    /\ InWindow(ParseUrl(lastStore.issued), lastStore.at)
    /\ ParseUrl(lastStore.issued).blob \in blobs
    /\ lastStore.status = 403

\* C5: a PUT to a returned uploadUrl with the blob-type header succeeds (2xx)
\* when made inside the token's validity window, and is answered 403 when
\* made after the window has elapsed
C5_PutSucceedsOnlyInWindow ==
    (lastStore.method = "PUT" /\ lastStore.typed /\ lastStore.url = lastStore.issued) =>
        LET u == ParseUrl(lastStore.issued)
        IN  /\ InWindow(u, lastStore.at) => lastStore.status \in {200, 201}
            /\ lastStore.at >= ParseISO(u.se) => lastStore.status = 403

C5_Witness ==
    /\ lastStore.method = "PUT"
    /\ lastStore.typed
    /\ lastStore.url = lastStore.issued
    /\ lastStore.at >= ParseISO(ParseUrl(lastStore.issued).se)
    /\ lastStore.status = 403
    /\ ParseUrl(lastStore.issued).blob \in blobs

\* C6: for every generated record the expiry instant handed to the token
\* equals its start instant plus 5 minutes, also when the clock advances
\* between the reads made while building the token
C6_ExactlyFiveMinutes ==
    resp.status = 200 =>
        \A i \in DOMAIN resp.made :
            resp.made[i].values.expiresOn = resp.made[i].values.startsOn + FiveMinutes

\* C7: if createIfNotExists or a token construction fails, the endpoint
\* answers 500 with a body containing the failure message and no records,
\* and handling the request changes no blob in storage
C7_FailureAnswers500 ==
    /\ [](resp.thrown.set =>
            /\ resp.status = 500
            /\ Contains(resp.body, resp.thrown.text)
            /\ resp.urls = <<>>)
    /\ [][/\ req.phase = "createFailed" =>
               /\ resp'.status = 500
               /\ Contains(resp'.body, req.error)
               /\ resp'.urls = <<>>
          /\ req.phase # "idle" => blobs' = blobs]_vars

C7_Witness ==
    /\ resp.thrown.set
    /\ resp.thrown.text \in TokenErrors
    /\ resp.status = 500
    /\ container

\* C8: nothing the issuance process writes to an output stream or into an
\* HTTP response contains the account's secret key
C8_SecretNeverWritten ==
    cred.accountKey # <<>> =>
        /\ \A l \in written : ~Contains(l.text, cred.accountKey)
        /\ ~Contains(resp.body, cred.accountKey)
        /\ \A i \in DOMAIN resp.urls :
              /\ ~Contains(resp.urls[i].uploadUrl, cred.accountKey)
              /\ ~Contains(resp.urls[i].fileUrl, cred.accountKey)

\* the hosts the storage endpoint is reached at
StorageHosts == { UrlHost(InternalEndpoint), UrlHost(LocalEndpoint), <<"localhost:10000">> }

\* C9: payload bytes are sent only in PUT requests addressed to the storage
\* endpoint; no request to the issuance service carries them
C9_PayloadOnlyToStorage ==
    \A r \in wire :
        /\ r.body # <<>> => r.method = "PUT" /\ r.to \in StorageHosts
        /\ r.to = <<IssuanceHost>> => r.body = <<>>

C9_Witness ==
    /\ agent.pc = "done"
    /\ \E r \in wire : r.to = <<IssuanceHost>>
    /\ \E r \in wire : r.body = fakeImageBuffer /\ r.to = <<"localhost:10000">>
    /\ blobs # {}

\* C10: with the connection string absent or empty the process fails before
\* it listens: it never accepts or answers a request
C10_NoServiceWithoutConfig ==
    ~Truthy(env) => srv # "listening" /\ req = NoReq /\ resp = NoResp

C10_Witness ==
    /\ env = Str(<<>>)
    /\ srv = "crashed"
\* C11: once it has the records the agent sends exactly one PUT per record,
\* in the order received, the next only after the previous settled; a failed
\* transfer is neither retried nor stops the later ones, and the agent always
\* gets to its completion message
C11_OnePutPerRecordInOrder ==
    /\ [](agent.pc \in {"uploading", "awaiting", "done"} =>
            /\ Len(agent.puts) <= Len(agent.urls)
            /\ \A i \in DOMAIN agent.puts : agent.puts[i] = clientUploadUrl(agent.urls[i])
            /\ Len(agent.puts) = Len(agent.results) + (IF agent.pc = "awaiting" THEN 1 ELSE 0)
            /\ agent.pc = "done" => Len(agent.results) = Len(agent.urls))
    /\ (agent.pc = "uploading" ~> agent.pc = "done")

C11_Witness ==
    /\ agent.pc = "done"
    /\ Len(agent.puts) = 5
    /\ \E i, k, l \in DOMAIN agent.results :
          /\ i < k /\ k < l /\ l < Len(agent.results)
          /\ agent.results[i] = 0
          /\ agent.results[k] = 201
          /\ agent.results[l] = 403
    /\ \E i, k \in DOMAIN agent.urls : i < k /\ agent.urls[i] # agent.urls[k]

\* what follows the host in a URL: its path and its query string
UrlPathAndQuery(url) == SubSeq(url, Len(Split(url, "/")[1]) + 1, Len(url))

\* C12: the URL the agent uses differs from the uploadUrl it received at most
\* in the host: path and query string are the same, and a URL whose host is
\* not the internal one is used as it is
C12_OnlyInternalHostRewritten ==
    \A i \in DOMAIN agent.puts :
        LET received == agent.urls[i].uploadUrl
            used == agent.puts[i]
        IN  /\ used[1] = received[1]
            /\ UrlPathAndQuery(used) = UrlPathAndQuery(received)
            /\ UrlHost(received) # <<"azurite:10000">> => used = received

\* C13: a cleanup of a container that does not exist or holds nothing
\* attempts no delete and ends with exit status 0 (the storage calls it makes
\* being answered)
C13_NothingToDoExitsZero ==
    sweep.pc = "exited" /\ sweep.atStart = {} =>
        /\ sweep.attempted = <<>>
        /\ sweep.thrown = "" => sweep.exit = 0

C13_Witness ==
    /\ sweep.pc = "exited"
    /\ ~container
    /\ sweep.thrown = ""
    /\ sweep.exit = 0
    /\ sweep.attempted = <<>>

\* C14: over a container holding N objects the cleanup reports found = N,
\* and succeeded + failed = found whatever the outcome of each delete
C14_SummaryAddsUp ==
    /\ sweep.summary # <<>> =>
          /\ sweep.summary[1].found = Cardinality(sweep.atStart)
          /\ sweep.summary[1].succeeded + sweep.summary[1].failed = sweep.summary[1].found
    /\ sweep.pc = "exited" /\ sweep.thrown = "" /\ sweep.atStart # {} => sweep.summary # <<>>

C14_Witness ==
    /\ sweep.summary # <<>>
    /\ sweep.summary[1].found = 3
    /\ sweep.summary[1].succeeded = 1
    /\ sweep.summary[1].failed = 2

\* C15 as stated: the exit status is not zero only when the enumeration
\* (the listing) threw
C15_NonZeroOnlyIfListingThrows ==
    sweep.pc = "exited" => (sweep.exit # 0 <=> sweep.thrown = "list")

\* C15 amended: the exit status is not zero exactly when the existence check
\* or the listing threw; failed deletes, a missing or an empty container
\* leave it at zero
C15_NonZeroIffReadThrows ==
    sweep.pc = "exited" =>
        /\ sweep.exit \in {0, 1}
        /\ sweep.exit # 0 <=> sweep.thrown \in {"exists", "list"}
        /\ sweep.thrown \in {"", "exists", "list"}

C15_Witness ==
    /\ sweep.pc = "exited"
    /\ sweep.thrown = "exists"
    /\ sweep.exit = 1
    /\ sweep.run = 2
    /\ blobs # {}

\* C16: of two cleanups in a row the second finds no more than the first,
\* and it does not end with an error because objects are gone
C16_SecondRunFindsNoMore ==
    /\ \A i, j \in DOMAIN sweep.founds :
          i < j /\ sweep.founds[i] >= 0 /\ sweep.founds[j] >= 0
            => sweep.founds[j] <= sweep.founds[i]
    /\ sweep.pc = "exited" /\ sweep.run >= 2 /\ sweep.exit # 0 => sweep.thrown # ""

C16_Witness ==
    /\ sweep.pc = "exited"
    /\ sweep.run = 2
    /\ sweep.founds = <<3, 0>>
    /\ sweep.exit = 0

\* an error of one transfer or of one delete stays in its unit: every
\* record gets its transfer and its result, every listed name its delete
\* and its count, and the run ends with its report
TransferAndDeleteContained ==
    /\ agent.pc = "done" =>
          /\ Len(agent.results) = Len(agent.urls)
          /\ Len(agent.puts) = Len(agent.urls)
    /\ agent.pc \in {"uploading", "awaiting"} => Len(agent.results) = agent.next - 1
    /\ sweep.thrown # "delete"
    /\ sweep.pc = "exited" /\ sweep.blobsToDelete # <<>> /\ sweep.thrown = "" =>
          /\ sweep.attempted = sweep.blobsToDelete
          /\ sweep.summary # <<>>
          /\ sweep.summary[1].succeeded + sweep.summary[1].failed = Len(sweep.blobsToDelete)

\* C17 as stated: an error in one token construction, one transfer or one
\* delete never escapes its unit; the rest of the batch is processed and
\* the batch reports the results
C17_UnitErrorNeverEscapes ==
    /\ resp.thrown.set /\ resp.thrown.text \in TokenErrors =>
          /\ resp.status = 200
          /\ resp.urls # <<>>
    /\ TransferAndDeleteContained

\* C17 amended: an error in one transfer or one delete never escapes its
\* unit, while an error in one token construction fails the whole request:
\* status 500 and no record at all
C17_TransferAndDeleteErrorsContained ==
    /\ resp.thrown.set /\ resp.thrown.text \in TokenErrors =>
          /\ resp.status = 500
          /\ resp.urls = <<>>
    /\ TransferAndDeleteContained

C17_Witness ==
    /\ agent.pc = "done"
    /\ Len(agent.results) = 5
    /\ agent.results[1] = 0
    /\ agent.results[5] = 201
    /\ sweep.pc = "exited"
    /\ sweep.summary # <<>>
    /\ sweep.summary[1].failed >= 1
    /\ sweep.summary[1].succeeded >= 1
    /\ sweep.attempted[1] \in blobs

\* String.prototype.endsWith on token sequences
EndsWith(s, tail) ==
    /\ Len(tail) <= Len(s)
    /\ SubSeq(s, Len(s) - Len(tail) + 1, Len(s)) = tail

\* C18: in every record of a 200 response, fileUrl has no query string and
\* ends in the record's blobName, and uploadUrl is fileUrl, then "?", then
\* the serialized token, which carries a sig= and an se= parameter
C18_UploadUrlIsFileUrlPlusToken ==
    resp.status = 200 =>
        \A i \in DOMAIN resp.urls :
            LET r == resp.urls[i]
                sasToken == SubSeq(r.uploadUrl, Len(r.fileUrl) + 2, Len(r.uploadUrl))
                params == Split(sasToken, "&")
            IN  /\ ~Contains(r.fileUrl, <<"?">>)
                /\ EndsWith(r.fileUrl, r.blobName)
                /\ r.uploadUrl = r.fileUrl \o <<"?">> \o sasToken
                /\ sasToken = SasToken(resp.made[i].values, cred)
                /\ ~Contains(sasToken, <<"?">>)
                /\ QueryParam(params, "sig") # <<>>
                /\ QueryParam(params, "se") # <<>>

C18_Witness ==
    /\ resp.status = 200
    /\ Len(resp.urls) = 3
    /\ resp.urls[1].fileUrl # resp.urls[3].fileUrl
    /\ resp.urls[1].uploadUrl = resp.urls[1].fileUrl \o <<"?">> \o SasToken(resp.made[1].values, cred)
    /\ QueryParam(Split(UrlQuery(resp.urls[3].uploadUrl), "&"), "se") =
          TruncatedISO(resp.made[3].values.expiresOn)

\* C19: parseConnectionString maps AccountName, AccountKey and BlobEndpoint
\* each to its complete value, all the text between the first "=" of its
\* pair and the next ";", whatever other pairs the string holds
C19_ValuesKeptWhole ==
    srv # "boot" /\ env.set =>
        \A name \in { <<"AccountName">>, <<"AccountKey">>, <<"BlobEndpoint">> } :
            SdkValue(env.text, name) # <<>> =>
                parseConnectionString(env.text, name) = Str(SdkValue(env.text, name))

\* C20: no delete is attempted before the listing has ended; after it the
\* deletes attempted are the listed names, in order, each once and no other
\* name; a listing that throws leaves every object in place; an object
\* created once the listing has ended is still there when the run ends
C20_ListThenDeleteEachOnce ==
    /\ sweep.pc \in {"exists", "listing"} =>
          /\ sweep.attempted = <<>>
          /\ sweep.atStart \subseteq blobs
    /\ sweep.pc \in {"deleting", "exited"} =>
          /\ Len(sweep.attempted) <= Len(sweep.blobsToDelete)
          /\ sweep.attempted = SubSeq(sweep.blobsToDelete, 1, Len(sweep.attempted))
          /\ \A i, j \in DOMAIN sweep.attempted :
                sweep.attempted[i] = sweep.attempted[j] => i = j
    /\ sweep.pc = "exited" /\ sweep.thrown = "" => sweep.attempted = sweep.blobsToDelete
    /\ sweep.pc = "exited" /\ sweep.thrown = "list" =>
          /\ sweep.attempted = <<>>
          /\ sweep.atStart \subseteq blobs
    /\ sweep.pc = "exited" => sweep.late \subseteq blobs

C20_Witness ==
    /\ sweep.pc = "exited"
    /\ sweep.marker > 0
    /\ Len(sweep.attempted) = 3
    /\ sweep.successCount = 2
    /\ sweep.late # {}
    /\ sweep.late \subseteq blobs
    /\ \E i \in DOMAIN sweep.attempted : sweep.attempted[i] \in sweep.late

\* the count texts that read as a negative integer
NegativeCounts == { Str(<<"-">> \o ToDecimal(n)) : n \in 1..MaxCount }

\* the errors a handler run can end with whatever the count was
HandlerErrors == CreateErrors \cup {AuthError} \cup TokenErrors

\* C21: a count of 0 is answered like an absent count, with exactly 1
\* record; a negative integer count is answered 200 with no record, unless
\* creating the container failed; no count makes the handler fail by
\* itself, and the container is there when a count has been answered 200
C21_ZeroAndNegativeCounts ==
    /\ resp.status = 200 /\ resp.count \in {Str(<<"0">>), Undefined} => Len(resp.urls) = 1
    /\ resp.status # 0 /\ resp.count \in NegativeCounts =>
          \/ resp.status = 200 /\ resp.urls = <<>> /\ ~resp.thrown.set
          \/ /\ resp.status = 500
             /\ resp.thrown.set
             /\ resp.thrown.text \in CreateErrors \cup {AuthError}
    /\ resp.status # 0 => \/ resp.status = 200 /\ ~resp.thrown.set
                          \/ /\ resp.status = 500
                             /\ resp.thrown.set
                             /\ resp.thrown.text \in HandlerErrors
    /\ resp.status = 200 => container

C21_Witness ==
    /\ resp.status = 200
    /\ resp.count = Str(<<"-">> \o ToDecimal(MaxCount))
    /\ resp.urls = <<>>
    /\ resp.made = <<>>
    /\ ~resp.thrown.set
    /\ container

\* the names in a sequence
Range(seq) == { seq[i] : i \in DOMAIN seq }

\* the objects held when the first of the two runs started
HeldAtFirst == sweep.atStart \cup rival.atStart

\* a run ended as the code ends it: no error of a delete left its loop, it
\* went through all its names, and its summary adds up
EndedInOrder(sw) ==
    sw.pc = "exited" =>
        /\ sw.thrown \in {"", "exists", "list"}
        /\ sw.thrown = "" => sw.exit = 0 /\ sw.attempted = sw.blobsToDelete
        /\ sw.summary # <<>> =>
              /\ sw.summary[1].found = Len(sw.blobsToDelete)
              /\ sw.summary[1].succeeded + sw.summary[1].failed = sw.summary[1].found
        /\ sw.thrown = "" /\ sw.blobsToDelete # <<>> => sw.summary # <<>>

\* C22: of two interleaved cleanup runs, every object removed is counted as
\* succeeded by exactly one run and no other success is counted; an object
\* both runs tried is counted as failed by the one that came second, which
\* goes on; neither run ends on a delete error, and in each run
\* succeeded + failed = found
C22_InterleavedRunsAccount ==
    /\ sweep.successCount + rival.successCount = Cardinality(HeldAtFirst \ blobs)
    /\ sweep.failCount + rival.failCount
          >= Cardinality(Range(sweep.attempted) \cap Range(rival.attempted))
    /\ sweep.successCount + sweep.failCount = Len(sweep.attempted)
    /\ rival.successCount + rival.failCount = Len(rival.attempted)
    /\ EndedInOrder(sweep)
    /\ EndedInOrder(rival)

C22_Witness ==
    /\ sweep.pc = "exited"
    /\ rival.pc = "exited"
    /\ sweep.summary = <<[found |-> 3, succeeded |-> 1, failed |-> 2]>>
    /\ rival.summary = <<[found |-> 3, succeeded |-> 2, failed |-> 1]>>
    /\ blobs = {}
    /\ sweep.exit = 0
    /\ rival.exit = 0

====
